---- MODULE Spec2Model ----
(***************************************************************************)
(* Model of the recommendation-serving process of app/main.py:             *)
(* the ModelCache state, the startup event load_model_and_data, the health *)
(* endpoint read_root and the endpoint get_recommendations, which FastAPI  *)
(* runs in a thread pool (plain `def` handlers), so that several requests  *)
(* are in flight at once, each with its own local variables.               *)
(***************************************************************************)
EXTENDS Integers, Sequences, FiniteSets, TLC

(* ----------------------------- bounds --------------------------------- *)

\* largest MovieID of the bounded catalogs and rating files
MaxCatalog == 12
\* user ids 1..MaxUser may occur in the rating file
MaxUser == 2

(* ------------------------ program constants --------------------------- *)

\* src/config.py:53
TOP_K_RECOMMENDATIONS == 10
\* test/test_api_e2e.py:112, a user id with no rating
UnknownUser == 999999

(* --------------------------- value domains ---------------------------- *)

\* Python's None and a bound value, as an option type
None == <<>>
Some(v) == <<v>>
Val(o) == o[1]

Min(a, b) == IF a <= b THEN a ELSE b

MovieIds == 1..MaxCatalog
UserIds == (1..MaxUser) \cup {UnknownUser}
\* request slots: the worker threads that run a handler
Requests == {"r1", "r2"}

\* str(int) of a non-negative integer, as the f-string of line 116 formats it
RECURSIVE Str(_)
DigitChar(d) == SubSeq("0123456789", d + 1, d + 1)
Str(n) == IF n < 10 THEN DigitChar(n) ELSE Str(n \div 10) \o DigitChar(n % 10)

\* the conversion of the path segment to `user_id: int` (line 103): a
\* non-empty string of decimal digits is an integer, and denotes this one
IsInteger(str) ==
    /\ Len(str) > 0
    /\ \A k \in 1..Len(str) : \E d \in 0..9 : DigitChar(d) = SubSeq(str, k, k)
RECURSIVE ParseInt(_)
DigitOf(c) == CHOOSE d \in 0..9 : DigitChar(d) = c
ParseInt(str) ==
    IF Len(str) = 1 THEN DigitOf(str)
    ELSE 10 * ParseInt(SubSeq(str, 1, Len(str) - 1)) + DigitOf(SubSeq(str, Len(str), Len(str)))

\* the {user_id} path segments requested: the user ids in decimal, and two
\* segments that are not integers
Paths == {Str(u) : u \in UserIds} \cup {"abc", "1x"}

(* ------------------------- startup file inputs ------------------------ *)

\* a row of movies_cleaned.pkl (columns MOVIES_COLS)
MovieRow(i) == [MovieID |-> i, Title |-> "Movie " \o Str(i), Genres |-> "Genre " \o Str(i % 3)]

\* catalogs in ascending and in descending id order, MovieIDs unique
AscCatalog(n) == [k \in 1..n |-> MovieRow(k)]
DescCatalog(n) == [k \in 1..n |-> MovieRow(n + 1 - k)]
CatalogSizes == {0, 1, MaxCatalog - 1, MaxCatalog}
MoviesFiles == {AscCatalog(n) : n \in CatalogSizes} \cup {DescCatalog(n) : n \in CatalogSizes}

\* the movies a user of ratings.dat has rated: a prefix of the ids, or the even ids
Evens == {i \in MovieIds : i % 2 = 0}
SeenChoices == {{1}, 1..(MaxCatalog - 3), 1..MaxCatalog, Evens}
\* rows of ratings.dat; only the columns UserID and MovieID are read by the API
RatingRows(u, seen) == {[UserID |-> u, MovieID |-> m] : m \in seen}
FirstUserRows == {{}} \cup {RatingRows(1, s) : s \in SeenChoices}
OtherUserRows(u) == {{}, RatingRows(u, Evens)}
RECURSIVE RatingsUpTo(_)
RatingsUpTo(u) ==
    IF u = 1 THEN FirstUserRows
    ELSE {a \cup b : a \in RatingsUpTo(u - 1), b \in OtherUserRows(u)}
RatingsFiles == RatingsUpTo(MaxUser)

\* the pickled SVD artifacts: opaque scoring functions, named
ModelFiles == {"const", "cycle", "byuser"}

FileStatus == {"ok", "missing", "unparsable"}
File(status, content) == [status |-> status, content |-> content]
FilesOf(contents) ==
    {File("ok", Some(c)) : c \in contents} \cup {File("missing", None), File("unparsable", None)}

(* ------------------------------- state -------------------------------- *)

VARIABLES
    files,      \* the three startup inputs on disk
    cache,      \* app.state.cache: model, movies_df, user_watch_list
    phase,      \* position of the process: startup steps, serving, exited
    outcome,    \* how the process ended, "running" while it has not
    req         \* per request slot: position in the handler and its locals

vars == <<files, cache, phase, outcome, req>>

\* class ModelCache, lines 32-35
ModelCache == [model |-> None, movies_df |-> None, user_watch_list |-> None]

\* the local variables of a handler call before it starts
IdleFrame ==
    [pc |-> "idle", endpoint |-> "", path |-> "", user_id |-> 0,
     watched_movies |-> {}, all_movie_ids |-> <<>>, movies_to_predict |-> <<>>,
     predict_calls |-> <<>>, predictions |-> <<>>, top_k_movie_ids |-> <<>>,
     recommended_movies |-> <<>>,
     response |-> None]

(* --------------------------- pure operators --------------------------- *)

\* algo.predict(uid, iid).est of the loaded artifact, a rating in 1..5
Predict(algo, uid, iid) ==
    CASE algo = "const" -> 3
      [] algo = "cycle" -> ((iid + uid) % 5) + 1
      [] OTHER -> ((iid * ((uid % 3) + 1)) % 4) + 1

\* movies_df.set_index("MovieID", inplace=True)
SetIndex(df) ==
    [k \in 1..Len(df) |-> [Index |-> df[k].MovieID, Title |-> df[k].Title, Genres |-> df[k].Genres]]

\* ratings_df.groupby('UserID')['MovieID'].apply(set)
GroupByUser(rows) ==
    [u \in {r.UserID : r \in rows} |-> {r.MovieID : r \in {q \in rows : q.UserID = u}}]

\* movies_df.index.tolist()
IndexToList(df) == [k \in 1..Len(df) |-> df[k].Index]

\* the candidate list built without the membership test
MoviesToPredictUnfiltered(all_movie_ids, watched_movies) == all_movie_ids

\* [movie_id for movie_id in all_movie_ids if movie_id not in watched_movies]
MoviesToPredict(all_movie_ids, watched_movies) ==
    SelectSeq(all_movie_ids, LAMBDA movie_id : movie_id \notin watched_movies)

\* [(movie_id, model.predict(uid=user_id, iid=movie_id).est) for movie_id in ...]
ScoreAll(algo, user_id, movies_to_predict) ==
    [k \in 1..Len(movies_to_predict) |->
        <<movies_to_predict[k], Predict(algo, user_id, movies_to_predict[k])>>]

\* a scoring loop that calls predict a second time for every candidate
PredictCallsRetried(user_id, movies_to_predict) ==
    [k \in 1..(2 * Len(movies_to_predict)) |->
        [uid |-> user_id, iid |-> movies_to_predict[((k - 1) \div 2) + 1]]]

\* the calls of model.predict the comprehension of lines 142-145 makes, in order
PredictCalls(user_id, movies_to_predict) ==
    [k \in 1..Len(movies_to_predict) |-> [uid |-> user_id, iid |-> movies_to_predict[k]]]

\* the insertion of a sort that lost reverse=True: lowest estimate first
InsertAsc(p, sorted) ==
    LET before == {k \in 1..Len(sorted) : sorted[k][2] <= p[2]}
        n == IF before = {} THEN 0 ELSE CHOOSE k \in before : \A j \in before : j <= k
    IN  SubSeq(sorted, 1, n) \o <<p>> \o SubSeq(sorted, n + 1, Len(sorted))

\* list.sort(key=lambda x: x[1], reverse=True): stable, highest estimate first
InsertDesc(p, sorted) ==
    LET before == {k \in 1..Len(sorted) : sorted[k][2] >= p[2]}
        n == IF before = {} THEN 0 ELSE CHOOSE k \in before : \A j \in before : j <= k
    IN  SubSeq(sorted, 1, n) \o <<p>> \o SubSeq(sorted, n + 1, Len(sorted))
RECURSIVE SortDesc(_)
SortDesc(preds) ==
    IF preds = <<>> THEN <<>>
    ELSE InsertDesc(preds[Len(preds)], SortDesc(SubSeq(preds, 1, Len(preds) - 1)))

\* the slice taken from the wrong end: predictions[-TOP_K_RECOMMENDATIONS:]
TopKTail(preds) ==
    SubSeq(preds, Len(preds) - Min(TOP_K_RECOMMENDATIONS, Len(preds)) + 1, Len(preds))

\* the ranked list without the slice
TopKUnsliced(preds) == preds

\* predictions[:TOP_K_RECOMMENDATIONS]
TopK(preds) == SubSeq(preds, 1, Min(TOP_K_RECOMMENDATIONS, Len(preds)))

\* [movie_id for (movie_id, rating) in top_k_preds]
IdsOf(preds) == [k \in 1..Len(preds) |-> preds[k][1]]

\* movies_df.loc[labels]: for each label in turn, every row carrying it
RECURSIVE Loc(_, _)
Loc(df, labels) ==
    IF labels = <<>> THEN <<>>
    ELSE SelectSeq(df, LAMBDA row : row.Index = Head(labels)) \o Loc(df, Tail(labels))

\* the Movie objects built with the two text columns exchanged
ToMoviesSwapped(rows) ==
    [k \in 1..Len(rows) |-> [MovieID |-> rows[k].Index, Title |-> rows[k].Genres, Genres |-> rows[k].Title]]

\* Movie(MovieID=row.Index, Title=row.Title, Genres=row.Genres) for each row
ToMovies(rows) ==
    [k \in 1..Len(rows) |-> [MovieID |-> rows[k].Index, Title |-> rows[k].Title, Genres |-> rows[k].Genres]]

\* the responses
NotFound(user_id) ==
    [status |-> 404, detail |-> "User ID " \o Str(user_id) \o " not found in the ratings data."]
ModelNotLoaded == [status |-> 503, detail |-> "Model is not loaded."]
\* an exception that is not an HTTPException leaves the handler
InternalServerError == [status |-> 500, detail |-> "Internal Server Error"]
Success(user_id, recommended_movies) ==
    [status |-> 200, UserID |-> user_id, Recommendations |-> recommended_movies]
\* the framework's answer when the path segment fails the int conversion
ValidationError == [status |-> 422, loc |-> <<"path", "user_id">>]
HealthOk == [status |-> 200, health |-> "ok", message |-> "Recommendation API is running!"]
HealthError == [status |-> 200, health |-> "error", message |-> "Model or data is not loaded!"]

(* ------------------------------ startup ------------------------------- *)

Init ==
    /\ files \in [model : FilesOf(ModelFiles), movies : FilesOf(MoviesFiles),
                  ratings : FilesOf(RatingsFiles)]
    /\ cache = ModelCache
    /\ phase = "load_model"
    /\ outcome = "running"
    /\ req = [r \in Requests |-> IdleFrame]

\* what a step of the startup handler does with its file: the bound value, or
\* sys.exit(1) on FileNotFoundError, or an exception the try does not catch
AfterLoad(file, field, value, next) ==
    IF file.status = "ok"
    THEN /\ cache' = [cache EXCEPT ![field] = Some(value)]
         /\ phase' = next
         /\ outcome' = "running"
    ELSE /\ cache' = cache
         /\ phase' = "exited"
         /\ outcome' = IF file.status = "missing" THEN "SystemExit(1)" ELSE "StartupException"

\* lines 50-56
LoadModel ==
    /\ phase = "load_model"
    /\ AfterLoad(files.model, "model",
                 IF files.model.status = "ok" THEN Val(files.model.content) ELSE "", "load_movies")
    /\ UNCHANGED <<files, req>>

\* lines 58-67
LoadMovies ==
    /\ phase = "load_movies"
    /\ AfterLoad(files.movies, "movies_df",
                 IF files.movies.status = "ok" THEN SetIndex(Val(files.movies.content)) ELSE <<>>,
                 "load_ratings")
    /\ UNCHANGED <<files, req>>

\* a load step that reports the missing file and carries on
LoadRatingsNoExit ==
    /\ phase = "load_ratings"
    /\ cache' = IF files.ratings.status = "ok"
                THEN [cache EXCEPT !.user_watch_list = Some(GroupByUser(Val(files.ratings.content)))]
                ELSE cache
    /\ phase' = "serving"
    /\ outcome' = "running"
    /\ UNCHANGED <<files, req>>

\* lines 69-87
LoadRatings ==
    /\ phase = "load_ratings"
    /\ AfterLoad(files.ratings, "user_watch_list",
                 IF files.ratings.status = "ok" THEN GroupByUser(Val(files.ratings.content)) ELSE <<>>,
                 "serving")
    /\ UNCHANGED <<files, req>>

(* ------------------------------ handlers ------------------------------ *)

Serving == phase = "serving"

\* a request reaches a handler: FastAPI calls it in a worker thread
Begin(r, endpoint, user_id) ==
    /\ Serving
    /\ req[r].pc = "idle"
    /\ req' = [req EXCEPT ![r] = [IdleFrame EXCEPT !.pc = endpoint, !.endpoint = endpoint,
                                                    !.user_id = user_id]]
    /\ UNCHANGED <<files, cache, phase, outcome>>

\* a routing that hands the segment to the handler without the int conversion
RouteUnvalidated(r, path) ==
    /\ Serving
    /\ req[r].pc = "idle"
    /\ req' = [req EXCEPT ![r] =
                  [IdleFrame EXCEPT !.pc = "get_recommendations", !.endpoint = "get_recommendations",
                                    !.path = path,
                                    !.user_id = IF IsInteger(path) THEN ParseInt(path) ELSE 0]]
    /\ UNCHANGED <<files, cache, phase, outcome>>

\* lines 100-103: GET /recommend/{user_id} with `user_id: int`; the handler is
\* called with the converted integer, or not at all
Route(r, path) ==
    /\ Serving
    /\ req[r].pc = "idle"
    /\ req' = [req EXCEPT ![r] =
                  IF IsInteger(path)
                  THEN [IdleFrame EXCEPT !.pc = "get_recommendations",
                                         !.endpoint = "get_recommendations",
                                         !.path = path, !.user_id = ParseInt(path)]
                  ELSE [IdleFrame EXCEPT !.pc = "done", !.endpoint = "request_validation",
                                         !.path = path, !.response = Some(ValidationError)]]
    /\ UNCHANGED <<files, cache, phase, outcome>>

\* the handler call ends with this response
Reply(r, response) == [req EXCEPT ![r].pc = "done", ![r].response = Some(response)]

\* bool(obj) of the unpickled model object, or of None
Truthy(o) == o # None

\* a health check that looks at the model only
read_root_model_only(c) ==
    IF Truthy(c.model) THEN HealthOk ELSE HealthError

\* lines 92-97
read_root(c) ==
    IF Truthy(c.model) /\ c.movies_df # None THEN HealthOk ELSE HealthError

ReadRoot(r) ==
    /\ req[r].pc = "read_root"
    /\ req' = Reply(r, read_root(cache))
    /\ UNCHANGED <<files, cache, phase, outcome>>

\* the handler without the user-existence test
CheckUserUnguarded(r) ==
    /\ req[r].pc = "get_recommendations"
    /\ req' = IF cache.user_watch_list = None THEN Reply(r, InternalServerError)
              ELSE [req EXCEPT ![r].pc = "check_model"]
    /\ UNCHANGED <<files, cache, phase, outcome>>

\* lines 112-117: user_id not in cache.user_watch_list (TypeError on None)
CheckUser(r) ==
    /\ req[r].pc = "get_recommendations"
    /\ req' = IF cache.user_watch_list = None THEN Reply(r, InternalServerError)
              ELSE IF req[r].user_id \notin DOMAIN Val(cache.user_watch_list)
                   THEN Reply(r, NotFound(req[r].user_id))
                   ELSE [req EXCEPT ![r].pc = "check_model"]
    /\ UNCHANGED <<files, cache, phase, outcome>>

\* lines 119-120
CheckModel(r) ==
    /\ req[r].pc = "check_model"
    /\ req' = IF cache.model = None THEN Reply(r, ModelNotLoaded)
              ELSE [req EXCEPT ![r].pc = "watched"]
    /\ UNCHANGED <<files, cache, phase, outcome>>

\* cache.user_watch_list.get(user_id, set())
WatchedMovies(c, user_id) ==
    IF user_id \in DOMAIN Val(c.user_watch_list) THEN Val(c.user_watch_list)[user_id] ELSE {}

\* line 125
GetWatched(r) ==
    /\ req[r].pc = "watched"
    /\ req' = IF cache.user_watch_list = None THEN Reply(r, InternalServerError)
              ELSE [req EXCEPT ![r].pc = "all_ids",
                               ![r].watched_movies = WatchedMovies(cache, req[r].user_id)]
    /\ UNCHANGED <<files, cache, phase, outcome>>

\* line 128 (AttributeError on None)
GetAllMovieIds(r) ==
    /\ req[r].pc = "all_ids"
    /\ req' = IF cache.movies_df = None THEN Reply(r, InternalServerError)
              ELSE [req EXCEPT ![r].pc = "filter",
                               ![r].all_movie_ids = IndexToList(Val(cache.movies_df))]
    /\ UNCHANGED <<files, cache, phase, outcome>>

\* lines 132-135
FilterWatched(r) ==
    /\ req[r].pc = "filter"
    /\ req' = [req EXCEPT ![r].pc = "predict",
                          ![r].movies_to_predict =
                              MoviesToPredict(req[r].all_movie_ids, req[r].watched_movies)]
    /\ UNCHANGED <<files, cache, phase, outcome>>

\* the scoring step with `predictions` kept in a module-level list, which the
\* calls in flight between scoring and slicing then share
PredictAllShared(r) ==
    /\ req[r].pc = "predict"
    /\ cache.model # None
    /\ LET scored == ScoreAll(Val(cache.model), req[r].user_id, req[r].movies_to_predict)
       IN  req' = [q \in Requests |->
                      IF q = r
                      THEN [req[q] EXCEPT !.pc = "sort", !.predictions = scored,
                                          !.predict_calls =
                                              PredictCalls(req[r].user_id, req[r].movies_to_predict)]
                      ELSE IF req[q].pc \in {"sort", "top_k"}
                           THEN [req[q] EXCEPT !.predictions = scored]
                           ELSE req[q]]
    /\ UNCHANGED <<files, cache, phase, outcome>>

\* lines 142-145
PredictAll(r) ==
    /\ req[r].pc = "predict"
    /\ req' = IF cache.model = None THEN Reply(r, InternalServerError)
              ELSE [req EXCEPT ![r].pc = "sort",
                               ![r].predict_calls =
                                   PredictCalls(req[r].user_id, req[r].movies_to_predict),
                               ![r].predictions =
                                   ScoreAll(Val(cache.model), req[r].user_id, req[r].movies_to_predict)]
    /\ UNCHANGED <<files, cache, phase, outcome>>

\* the ranking step sorting a list that all calls in flight share
SortPredictionsShared(r) ==
    /\ req[r].pc = "sort"
    /\ req' = [q \in Requests |->
                  IF q = r THEN [req[q] EXCEPT !.pc = "top_k", !.predictions = SortDesc(req[r].predictions)]
                  ELSE IF req[q].pc \in {"sort", "top_k"}
                       THEN [req[q] EXCEPT !.predictions = SortDesc(req[r].predictions)]
                       ELSE req[q]]
    /\ UNCHANGED <<files, cache, phase, outcome>>

\* line 148
SortPredictions(r) ==
    /\ req[r].pc = "sort"
    /\ req' = [req EXCEPT ![r].pc = "top_k", ![r].predictions = SortDesc(req[r].predictions)]
    /\ UNCHANGED <<files, cache, phase, outcome>>

\* lines 151-152
TakeTopK(r) ==
    /\ req[r].pc = "top_k"
    /\ req' = [req EXCEPT ![r].pc = "polish",
                          ![r].top_k_movie_ids = IdsOf(TopK(req[r].predictions))]
    /\ UNCHANGED <<files, cache, phase, outcome>>

\* lines 156-165
Polish(r) ==
    /\ req[r].pc = "polish"
    /\ req' = IF cache.movies_df = None THEN Reply(r, InternalServerError)
              ELSE [req EXCEPT ![r].pc = "return",
                               ![r].recommended_movies =
                                   ToMovies(Loc(Val(cache.movies_df), req[r].top_k_movie_ids))]
    /\ UNCHANGED <<files, cache, phase, outcome>>

\* the handler adding what it recommends to the user's set in the cache
ReturnMarkWatched(r) ==
    /\ req[r].pc = "return"
    /\ req' = Reply(r, Success(req[r].user_id, req[r].recommended_movies))
    /\ cache' = IF req[r].user_id \in DOMAIN Val(cache.user_watch_list)
                THEN [cache EXCEPT !.user_watch_list =
                        Some([Val(cache.user_watch_list) EXCEPT ![req[r].user_id] =
                                @ \cup {req[r].top_k_movie_ids[k] : k \in 1..Len(req[r].top_k_movie_ids)}])]
                ELSE cache
    /\ UNCHANGED <<files, phase, outcome>>

\* lines 168-171
Return(r) ==
    /\ req[r].pc = "return"
    /\ req' = Reply(r, Success(req[r].user_id, req[r].recommended_movies))
    /\ UNCHANGED <<files, cache, phase, outcome>>

\* the response is sent and the call's locals are dropped
Finish(r) ==
    /\ req[r].pc = "done"
    /\ req' = [req EXCEPT ![r] = IdleFrame]
    /\ UNCHANGED <<files, cache, phase, outcome>>

\* get_recommendations run alone, lines 103-171, as one function of the cache
get_recommendations(c, user_id) ==
    IF c.user_watch_list = None THEN InternalServerError
    ELSE IF user_id \notin DOMAIN Val(c.user_watch_list) THEN NotFound(user_id)
    ELSE IF c.model = None THEN ModelNotLoaded
    ELSE IF c.movies_df = None THEN InternalServerError
    ELSE LET watched_movies == WatchedMovies(c, user_id)
             all_movie_ids == IndexToList(Val(c.movies_df))
             movies_to_predict == MoviesToPredict(all_movie_ids, watched_movies)
             predictions == SortDesc(ScoreAll(Val(c.model), user_id, movies_to_predict))
             top_k_movie_ids == IdsOf(TopK(predictions))
         IN  Success(user_id, ToMovies(Loc(Val(c.movies_df), top_k_movie_ids)))

(* --------------------------- specifications --------------------------- *)

Handle(r) ==
    \/ \E path \in Paths : Route(r, path)
    \/ Begin(r, "read_root", 0)
    \/ ReadRoot(r)
    \/ CheckUser(r)
    \/ CheckModel(r)
    \/ GetWatched(r)
    \/ GetAllMovieIds(r)
    \/ FilterWatched(r)
    \/ PredictAll(r)
    \/ SortPredictions(r)
    \/ TakeTopK(r)
    \/ Polish(r)
    \/ Return(r)
    \/ Finish(r)

Next ==
    \/ LoadModel
    \/ LoadMovies
    \/ LoadRatings
    \/ \E r \in Requests : Handle(r)

\* the process as deployed: the startup event, then requests
Spec == Init /\ [][Next]_vars

\* the handlers against a cache whose three fields are each bound or None,
\* as the module leaves it when the startup event has not run or has been
\* replaced by direct assignment to app.state.cache
LoadedCaches ==
    [model : {None} \cup {Some(m) : m \in ModelFiles},
     movies_df : {None} \cup {Some(SetIndex(f)) : f \in MoviesFiles},
     user_watch_list : {None} \cup {Some(GroupByUser(f)) : f \in RatingsFiles}]

HandlerInit ==
    /\ files = [model |-> File("missing", None), movies |-> File("missing", None),
                ratings |-> File("missing", None)]
    /\ cache \in LoadedCaches
    /\ phase = "serving"
    /\ outcome = "running"
    /\ req = [r \in Requests |-> IdleFrame]

HandlerNext == \E r \in Requests : Handle(r)

HandlerSpec == HandlerInit /\ [][HandlerNext]_vars

(* ------------------------------ properties ---------------------------- *)

\* a call of get_recommendations / read_root that has produced its response
Answered(r, endpoint) == req[r].pc = "done" /\ req[r].endpoint = endpoint
Recommended(r) == Answered(r, "get_recommendations") /\ Val(req[r].response).status = 200
Response(r) == Val(req[r].response)
CatalogLoaded == cache.movies_df # None
IndexLoaded == cache.user_watch_list # None
KnownUser(u) == IndexLoaded /\ u \in DOMAIN Val(cache.user_watch_list)
Seen(u) == Val(cache.user_watch_list)[u]
\* the positions of the catalog rows the user has not rated
Unseen(u) == {k \in 1..Len(Val(cache.movies_df)) : Val(cache.movies_df)[k].Index \notin Seen(u)}
RecIds(r) == [k \in 1..Len(Response(r).Recommendations) |-> Response(r).Recommendations[k].MovieID]
Score(r, k) == Predict(Val(cache.model), req[r].user_id, RecIds(r)[k])

\* C1: a success response for a user of the interaction index lists no
\* MovieID of that user's seen-items set.
C1_NoSeenItem ==
    \A r \in Requests :
        (Recommended(r) /\ KnownUser(req[r].user_id)) =>
            \A k \in 1..Len(RecIds(r)) : RecIds(r)[k] \notin Seen(req[r].user_id)

\* a success response with recommendations for a user who has rated part of the catalog
C1_Witness ==
    \E r \in Requests :
        /\ Recommended(r)
        /\ Len(RecIds(r)) > 0
        /\ \E k \in 1..Len(Val(cache.movies_df)) :
               Val(cache.movies_df)[k].Index \in Seen(req[r].user_id)

\* C2: a success response for a known user holds exactly
\* min(TOP_K_RECOMMENDATIONS, number of unseen catalog items) recommendations.
C2_Count ==
    \A r \in Requests :
        (Recommended(r) /\ KnownUser(req[r].user_id) /\ CatalogLoaded) =>
            Len(Response(r).Recommendations)
                = Min(TOP_K_RECOMMENDATIONS, Cardinality(Unseen(req[r].user_id)))

\* more than K unseen items and exactly K returned
C2_Witness ==
    \E r \in Requests :
        /\ Recommended(r)
        /\ Cardinality(Unseen(req[r].user_id)) > TOP_K_RECOMMENDATIONS
        /\ Len(Response(r).Recommendations) = TOP_K_RECOMMENDATIONS

\* C3: the recommendations of a success response are in descending order of
\* the model's score, and are the ranked ids in their ranked order.
C3_Descending ==
    \A r \in Requests :
        Recommended(r) =>
            /\ \A k \in 1..(Len(RecIds(r)) - 1) : Score(r, k) >= Score(r, k + 1)
            /\ RecIds(r) = req[r].top_k_movie_ids

\* a response whose scores differ, from a catalog that was not already in score order
C3_Witness ==
    \E r \in Requests :
        /\ Recommended(r)
        /\ \E k \in 1..(Len(RecIds(r)) - 1) : Score(r, k) > Score(r, k + 1)
        /\ \E i, j \in 1..Len(req[r].movies_to_predict) :
               /\ i < j
               /\ Predict(Val(cache.model), req[r].user_id, req[r].movies_to_predict[i])
                    < Predict(Val(cache.model), req[r].user_id, req[r].movies_to_predict[j])

DetailPrefix == "User ID "
DetailSuffix == " not found in the ratings data."

\* C4: a request for a user id without interaction record is answered 404 with
\* the detail "User ID {id} not found in the ratings data." naming that id.
C4_UnknownUser404 ==
    \A r \in Requests :
        (Answered(r, "get_recommendations") /\ IndexLoaded /\ ~KnownUser(req[r].user_id)) =>
            LET detail == Response(r).detail
                n == Len(detail)
            IN  /\ Response(r).status = 404
                /\ n > Len(DetailPrefix) + Len(DetailSuffix)
                /\ SubSeq(detail, 1, Len(DetailPrefix)) = DetailPrefix
                /\ SubSeq(detail, n - Len(DetailSuffix) + 1, n) = DetailSuffix
                /\ ParseInt(SubSeq(detail, Len(DetailPrefix) + 1, n - Len(DetailSuffix)))
                     = req[r].user_id

\* the request of the end-to-end test: user 999999, interaction index not empty
C4_Witness ==
    \E r \in Requests :
        /\ Answered(r, "get_recommendations")
        /\ req[r].user_id = UnknownUser
        /\ IndexLoaded
        /\ DOMAIN Val(cache.user_watch_list) # {}
        /\ Response(r).detail = "User ID 999999 not found in the ratings data."

\* C5: whenever cache.model is None, a get_recommendations request is answered
\* 503 "Model is not loaded.", whatever the user id and the other two fields.
C5_ModelUnbound503 ==
    \A r \in Requests :
        (Answered(r, "get_recommendations") /\ cache.model = None) =>
            Response(r) = [status |-> 503, detail |-> "Model is not loaded."]

\* C6: startup is all-or-nothing: a missing or unparsable input ends the
\* process at its load step with a nonzero exit, and a request is only ever
\* handled with model, catalog and interaction index all loaded.
Bad(file) == file.status # "ok"
C6_AllOrNothing ==
    /\ (\E r \in Requests : req[r].pc # "idle") =>
           (cache.model # None /\ cache.movies_df # None /\ cache.user_watch_list # None)
    /\ Bad(files.model) => phase \in {"load_model", "exited"}
    /\ Bad(files.movies) => phase \in {"load_model", "load_movies", "exited"}
    /\ Bad(files.ratings) => phase \in {"load_model", "load_movies", "load_ratings", "exited"}
    /\ phase = "exited" => outcome \in {"SystemExit(1)", "StartupException"}
    /\ phase # "exited" => outcome = "running"

\* the last input fails after the first two were loaded
C6_Witness ==
    /\ phase = "exited"
    /\ Bad(files.ratings)
    /\ cache.model # None
    /\ cache.movies_df # None
    /\ cache.user_watch_list = None

\* C7: two answered get_recommendations requests for the same user id carry
\* identical responses, ties between equal scores included.
C7_Deterministic ==
    \A r1, r2 \in Requests :
        (/\ Answered(r1, "get_recommendations")
         /\ Answered(r2, "get_recommendations")
         /\ req[r1].user_id = req[r2].user_id) => Response(r1) = Response(r2)

\* two success responses for one user, with equal scores among the recommendations
C7_Witness ==
    \E r1, r2 \in Requests :
        /\ r1 # r2
        /\ Recommended(r1)
        /\ Recommended(r2)
        /\ req[r1].user_id = req[r2].user_id
        /\ \E k \in 1..(Len(RecIds(r1)) - 1) : Score(r1, k) = Score(r1, k + 1)

\* C8: once serving, no step of any request changes the model binding, the
\* catalog or the interaction index, and a finished request leaves nothing
\* behind: its slot is back to the fresh frame.
C8_Frame ==
    [][Serving => /\ cache' = cache
                  /\ \A r \in Requests : req'[r].pc = "idle" => req'[r] = IdleFrame]_vars

\* a request has been answered with recommendations and another is in flight
C8_Witness ==
    \E r1, r2 \in Requests :
        /\ Recommended(r1)
        /\ Len(RecIds(r1)) > 0
        /\ req[r2].pc \notin {"idle", "done"}

\* C9: whatever the interleaving with other requests, an answered
\* get_recommendations request carries the response the handler gives when
\* run alone against the loaded state.
C9_AsIfAlone ==
    \A r \in Requests :
        Answered(r, "get_recommendations") =>
            Response(r) = get_recommendations(cache, req[r].user_id)

\* an answered request for one user while a request of another known user
\* is between scoring and ranking
C9_Witness ==
    \E r1, r2 \in Requests :
        /\ Recommended(r1)
        /\ Len(RecIds(r1)) > 0
        /\ req[r2].pc \in {"sort", "top_k", "polish"}
        /\ req[r2].user_id # req[r1].user_id

\* C10: GET / answers "ok" exactly when the model and the catalog are both
\* loaded and "error" otherwise.
C10_Health ==
    \A r \in Requests :
        Answered(r, "read_root") =>
            /\ Response(r).health \in {"ok", "error"}
            /\ Response(r).health = "ok" <=> (cache.model # None /\ cache.movies_df # None)

\* the model is loaded, the catalog is not, and the answer is "error"
C10_Witness ==
    \E r \in Requests :
        /\ Answered(r, "read_root")
        /\ cache.model # None
        /\ cache.movies_df = None
        /\ Response(r).health = "error"

\* a request on the route /recommend/{user_id} that is in flight or answered
OnRecommendRoute(r) == req[r].pc # "idle" /\ req[r].endpoint # "read_root"
\* the handler get_recommendations has not run for the request in slot r:
\* no user lookup, no scoring call, none of its locals set
NotInvoked(r) ==
    /\ req[r].endpoint # "get_recommendations"
    /\ req[r].predict_calls = <<>>
    /\ [req[r] EXCEPT !.pc = "idle", !.endpoint = "", !.path = "", !.response = None] = IdleFrame

\* C11 as stated: a user identifier that is not an integer is rejected with
\* status 400 and get_recommendations is not invoked for it.
C11_InvalidInput400 ==
    \A r \in Requests :
        (OnRecommendRoute(r) /\ ~IsInteger(req[r].path)) =>
            /\ req[r].pc = "done"
            /\ Response(r).status = 400
            /\ NotInvoked(r)

\* C11 amended: a user identifier that is not an integer is rejected with
\* the validation error 422 and get_recommendations is not invoked for it.
C11_InvalidInput422 ==
    \A r \in Requests :
        (OnRecommendRoute(r) /\ ~IsInteger(req[r].path)) =>
            /\ req[r].pc = "done"
            /\ Response(r).status = 422
            /\ Response(r).status \in 400..499
            /\ NotInvoked(r)

\* the segment "abc" has been rejected while the interaction index holds users
C11_Witness ==
    \E r \in Requests :
        /\ req[r].pc = "done"
        /\ req[r].path = "abc"
        /\ Response(r).status = 422
        /\ IndexLoaded
        /\ DOMAIN Val(cache.user_watch_list) # {}

\* the rows of the loaded catalog that carry a MovieID
CatalogRows(id) ==
    {k \in 1..Len(Val(cache.movies_df)) : Val(cache.movies_df)[k].Index = id}

\* C12: a success response carries the requested user id; every returned
\* MovieID is a catalog id, no MovieID is returned twice, and Title and Genres
\* of each entry are those of the catalog item with that MovieID; the catalog
\* lookup of the ranked ids raises nothing.
C12_WellFormed ==
    \A r \in Requests :
        /\ Recommended(r) =>
            LET recs == Response(r).Recommendations
            IN  /\ Response(r).UserID = ParseInt(req[r].path)
                /\ \A k \in 1..Len(recs) :
                       \E i \in CatalogRows(recs[k].MovieID) :
                           /\ recs[k].Title = Val(cache.movies_df)[i].Title
                           /\ recs[k].Genres = Val(cache.movies_df)[i].Genres
                /\ \A j, k \in 1..Len(recs) : recs[j].MovieID = recs[k].MovieID => j = k
        /\ (req[r].endpoint = "get_recommendations" /\ req[r].pc \in {"return", "done"}
                /\ req[r].top_k_movie_ids # <<>>) =>
            /\ \A k \in 1..Len(req[r].top_k_movie_ids) : CatalogRows(req[r].top_k_movie_ids[k]) # {}
            /\ req[r].pc = "return" \/ Response(r).status = 200

\* a success response of two or more movies whose Title and Genres differ,
\* from a catalog stored in descending id order
C12_Witness ==
    \E r \in Requests :
        /\ Recommended(r)
        /\ Len(RecIds(r)) >= 2
        /\ Response(r).Recommendations[1].Title # Response(r).Recommendations[2].Title
        /\ Response(r).Recommendations[1].Genres # Response(r).Recommendations[2].Genres
        /\ Len(Val(cache.movies_df)) >= 2
        /\ Val(cache.movies_df)[1].Index > Val(cache.movies_df)[2].Index

\* the handler of slot r is at or past the scoring step's end
Scored(r) ==
    /\ req[r].endpoint = "get_recommendations"
    /\ \/ req[r].pc \in {"sort", "top_k", "polish", "return"}
       \/ req[r].pc = "done" /\ Response(r).status = 200
\* the MovieIDs of the catalog the user has not rated
Candidates(u) == {Val(cache.movies_df)[k].Index : k \in Unseen(u)}
CallsFor(r, id) == {k \in 1..Len(req[r].predict_calls) : req[r].predict_calls[k].iid = id}

\* C13: predict is never called for a request whose user id is absent from
\* the interaction index, nor before the existence check has passed; for a
\* known user it is called with that user id, only on catalog ids outside the
\* user's seen set, and exactly once for each such candidate.
C13_CheckBeforeScoring ==
    \A r \in Requests :
        /\ (OnRecommendRoute(r) /\ ~KnownUser(req[r].user_id)) => req[r].predict_calls = <<>>
        /\ req[r].pc \in {"get_recommendations", "check_model", "watched", "all_ids", "filter", "predict"}
               => req[r].predict_calls = <<>>
        /\ (Answered(r, "get_recommendations") /\ Response(r).status # 200)
               => req[r].predict_calls = <<>>
        /\ req[r].predict_calls # <<>> =>
               \A k \in 1..Len(req[r].predict_calls) :
                   /\ req[r].predict_calls[k].uid = req[r].user_id
                   /\ req[r].predict_calls[k].iid \in Candidates(req[r].user_id)
        /\ Scored(r) =>
               /\ \A id \in Candidates(req[r].user_id) : Cardinality(CallsFor(r, id)) = 1
               /\ Len(req[r].predict_calls) = Cardinality(Candidates(req[r].user_id))

\* one request was answered 404 without a scoring call while another, for a
\* known user with seen catalog items, has scored its candidates
C13_Witness ==
    \E r1, r2 \in Requests :
        /\ Answered(r1, "get_recommendations")
        /\ Response(r1).status = 404
        /\ req[r1].predict_calls = <<>>
        /\ Scored(r2)
        /\ Len(req[r2].predict_calls) >= 2
        /\ Len(req[r2].predict_calls) < Len(Val(cache.movies_df))

\* C14: the response is the top K of the candidates: no catalog item unseen
\* by the user and left out of the response has a strictly higher score than
\* an item in the response.
C14_TopK ==
    \A r \in Requests :
        (Recommended(r) /\ KnownUser(req[r].user_id)) =>
            \A id \in Candidates(req[r].user_id) :
                (\A k \in 1..Len(RecIds(r)) : RecIds(r)[k] # id) =>
                    \A k \in 1..Len(RecIds(r)) :
                        Predict(Val(cache.model), req[r].user_id, id) <= Score(r, k)

\* a candidate was left out, and it scores strictly lower than a returned item
C14_Witness ==
    \E r \in Requests :
        /\ Recommended(r)
        /\ \E id \in Candidates(req[r].user_id) :
               /\ \A k \in 1..Len(RecIds(r)) : RecIds(r)[k] # id
               /\ \E k \in 1..Len(RecIds(r)) :
                      Predict(Val(cache.model), req[r].user_id, id) < Score(r, k)

====
